---- MODULE Spec2Model ----
(***************************************************************************)
(* The codex-review MCP server (codex-review/src/index.ts): the handler    *)
(* handleCodexReview and the managed child-process invocation callCodex.   *)
(*                                                                         *)
(* One invocation is one record of the function inv; its fields are the    *)
(* closure variables of callCodex (timeoutId, killTimeoutId, stdout,       *)
(* stderr, the promise), the observable effects on the child (spawn        *)
(* arguments, bytes written to stdin, kill calls) and the state of the     *)
(* child process as the Node runtime reports it.  JavaScript runs each     *)
(* callback to completion, so each callback is one action.                 *)
(***************************************************************************)
EXTENDS Integers, Sequences, FiniteSets, TLC

(***************************************************************************)
(* Bounds of the model.                                                    *)
(***************************************************************************)
\* at most this many 'data' events per output stream of one child
MaxChunks == 2

(***************************************************************************)
(* JavaScript values and string conversions.                               *)
(***************************************************************************)
\* a string value and the value undefined, as the handler's arguments carry
Str(s) == [t |-> "string", v |-> s]
Undefined == [t |-> "undefined", v |-> ""]

\* `x = dflt` in a destructuring pattern: the default applies to undefined
OrDefault(x, dflt) == IF x.t = "undefined" THEN dflt ELSE x.v

Digits == <<"0", "1", "2", "3", "4", "5", "6", "7", "8", "9">>
IsDigit(c) == \E d \in 1..10 : Digits[d] = c
DigitVal(c) == (CHOOSE d \in 1..10 : Digits[d] = c) - 1

\* String(n) for an integer n, as a template literal `${n}` formats it
RECURSIVE NatStr(_)
NatStr(n) == IF n < 10 THEN Digits[n + 1]
             ELSE NatStr(n \div 10) \o Digits[(n % 10) + 1]
NumStr(n) == IF n < 0 THEN "-" \o NatStr(0 - n) ELSE NatStr(n)

\* number of leading decimal digits of s
RECURSIVE LeadingDigits(_)
LeadingDigits(s) ==
  IF Len(s) = 0 \/ ~IsDigit(SubSeq(s, 1, 1)) THEN 0
  ELSE 1 + LeadingDigits(SubSeq(s, 2, Len(s)))

RECURSIVE DigitsVal(_, _)
DigitsVal(s, acc) ==
  IF Len(s) = 0 THEN acc
  ELSE DigitsVal(SubSeq(s, 2, Len(s)), acc * 10 + DigitVal(SubSeq(s, 1, 1)))

\* parseInt(s, 10) for s that starts with a digit: the value of the longest
\* prefix of digits; what follows the digits is ignored
ParseInt(s) == DigitsVal(SubSeq(s, 1, LeadingDigits(s)), 0)

\* sub occurs in s
Contains(s, sub) ==
  \E k \in 1..(Len(s) - Len(sub) + 1) : SubSeq(s, k, k + Len(sub) - 1) = sub

StartsWith(s, pre) == Len(s) >= Len(pre) /\ SubSeq(s, 1, Len(pre)) = pre

\* the concatenation of a sequence of strings, in order
RECURSIVE Concat(_)
Concat(ss) == IF ss = <<>> THEN "" ELSE Head(ss) \o Concat(Tail(ss))

\* an exit code as the 'close' event carries it: a number, or null when the
\* child was ended by a signal
Code(n) == [null |-> FALSE, n |-> n]
NullCode == [null |-> TRUE, n |-> 0]
CodeStr(code) == IF code.null THEN "null" ELSE NumStr(code.n)

(***************************************************************************)
(* Inputs.                                                                 *)
(***************************************************************************)
Inv == {1, 2}

\* request arguments (CodexReviewArgs): prompt is required by the schema but
\* the handler does not validate it; the other three are optional
Args(prompt, effort, file, model) ==
  [prompt |-> prompt, reasoning_effort |-> effort, output_file |-> file, model |-> model]
Requests ==
  { Args(Str("review this"), Undefined, Undefined, Undefined),
    Args(Str("review this"), Str("low"), Str("out/review.md"), Str("gpt-5")),
    Args(Str("-m"), Str("low"), Undefined, Undefined),
    Args(Undefined, Undefined, Undefined, Undefined),
    Args(Undefined, Undefined, Str("out/review.md"), Str("gpt-5")) }

\* values of the environment variable CODEX_TIMEOUT_MS ("" when unset)
EnvTimeouts == {"", "3000ms"}
ApiKeys == {"", "sk-test"}

\* what the child writes, chunk by chunk
ChildStdout == <<"o", "k", "a", "y">>
ChildStderr == <<"bad ", "input", "!", "!">>
\* exit codes of a child that ran
ExitCodes == {Code(0), Code(2), NullCode}
\* error messages of the stdin stream
StdinErrors == {"write EPIPE"}

\* the outcome of spawn(): the child runs; the executable is missing (the
\* stdio streams exist, 'error' is emitted on the next tick); the process
\* table is full (no stdio streams are created, 'error' on the next tick).
\* A failed spawn is the only source of the child's 'error' event: the
\* child takes no IPC channel or abort signal, and codex.kill() is taken to
\* deliver the signal or to find the child gone.
SpawnOutcomes == {"ok", "ENOENT", "EMFILE"}
SpawnErrno(o) == IF o = "ENOENT" THEN 0 - 2 ELSE 0 - 24

\* the instants the clock is observed at, besides the timers' deadlines
Instants == {1000, 6000, 303000}

(***************************************************************************)
(* Timers.                                                                 *)
(***************************************************************************)
NullTimer == [st |-> "null", at |-> 0]
\* setTimeout(cb, ms) at time t
SetTimeout(t, ms) == [st |-> "pending", at |-> t + ms]
\* `if (id) clearTimeout(id)`: cancels a pending timer, nothing otherwise
ClearTimeout(id) == IF id.st = "pending" THEN [id EXCEPT !.st = "cleared"] ELSE id

(***************************************************************************)
(* State.                                                                  *)
(***************************************************************************)
VARIABLES
  apiKey,       \* this.apiKey, read from the environment by the constructor
  envTimeout,   \* process.env.CODEX_TIMEOUT_MS
  now,          \* the clock the timers run on, in ms
  hostCrashed,  \* an 'error' event was emitted with no listener
  files,        \* the files written by handleCodexReview
  inv           \* the invocations, one record each

vars == <<apiKey, envTimeout, now, hostCrashed, files, inv>>

NoArgs == Args(Undefined, Undefined, Undefined, Undefined)

IdleInv ==
  [ phase         |-> "idle",      \* idle, awaiting (callCodex), responded
    args          |-> NoArgs,
    response      |-> [text |-> "", isError |-> FALSE],
    spawns        |-> <<>>,        \* the calls of spawn()
    child         |-> "none",      \* none, running, failed, exited, closed
    exitCode      |-> NullCode,
    tick          |-> FALSE,       \* the spawn failure waits on the next tick
    hasStdin      |-> FALSE,       \* codex.stdin is a stream
    listeners     |-> {},          \* the events that have a handler
    stdinData     |-> "",          \* what was written to codex.stdin
    stdinEnded    |-> FALSE,
    TIMEOUT_MS    |-> 0,
    timeoutId     |-> NullTimer,
    killTimeoutId |-> NullTimer,
    stdout        |-> "",
    stderr        |-> "",
    promise       |-> [state |-> "none", value |-> ""],
    signals       |-> <<>>,        \* the calls of codex.kill()
    log           |-> <<>>,        \* console.error of callCodex
    childOut      |-> <<>>,        \* the chunks the child wrote to stdout
    childErr      |-> <<>>,        \* the chunks the child wrote to stderr
    stdinErrored  |-> FALSE ]

(***************************************************************************)
(* callCodex: the promise and its callbacks, as functions of the           *)
(* invocation record.                                                      *)
(***************************************************************************)
SIGKILL_GRACE_MS == 2000
DEFAULT_TIMEOUT == "300000"

\* a promise whose every call of resolve or reject replaces the result
SettleLast(s, st, v) ==
  IF s.promise.state = "none" THEN s
  ELSE [s EXCEPT !.promise = [state |-> st, value |-> v]]

\* resolve and reject of `new Promise`: the first call settles the promise,
\* later calls are ignored
Settle(s, st, v) ==
  IF s.promise.state = "pending"
  THEN [s EXCEPT !.promise = [state |-> st, value |-> v]]
  ELSE s
Resolve(s, v) == Settle(s, "fulfilled", v)
Reject(s, msg) == Settle(s, "rejected", msg)

\* codex.kill(sig) at time t
Kill(s, sig, t) == [s EXCEPT !.signals = Append(@, [sig |-> sig, at |-> t])]

\* an argument vector that carries the prompt as its last element
CodexArgsWithPrompt(prompt, model, reasoning_effort) ==
  << "exec", "--full-auto", "-m", model, "-c",
     "model_reasoning_effort=" \o reasoning_effort, prompt.v >>

\* an argument vector with the effort in double quotes
CodexArgsQuotedEffort(prompt, model, reasoning_effort) ==
  << "exec", "--full-auto", "-m", model, "-c",
     "model_reasoning_effort=\"" \o reasoning_effort \o "\"" >>

\* the argument vector of spawn
CodexArgs(prompt, model, reasoning_effort) ==
  << "exec", "--full-auto", "-m", model, "-c",
     "model_reasoning_effort=" \o reasoning_effort >>

\* parseInt(process.env.CODEX_TIMEOUT_MS || "300000", 10)
TimeoutMs(env) == ParseInt(IF env = "" THEN DEFAULT_TIMEOUT ELSE env)

ClearTimer(s) == [s EXCEPT !.timeoutId = ClearTimeout(@)]
\* a cleanup that forgets the kill-escalation timer
ClearKillTimerForgotten(s) == s

ClearKillTimer(s) == [s EXCEPT !.killTimeoutId = ClearTimeout(@)]

\* a stdin 'error' handler that rejects and leaves the timers running
OnStdinErrorKeepsTimers(s, msg) ==
  Reject(s, "Failed to write to codex stdin: " \o msg)

\* codex.stdin.on("error", ...)
OnStdinError(s, msg) ==
  Reject(ClearKillTimer(ClearTimer(s)), "Failed to write to codex stdin: " \o msg)

\* a stdout handler that puts the new chunk in front of the buffer
OnStdoutDataPrepend(s, data) == [s EXCEPT !.stdout = data \o @]

\* a stderr handler that keeps the last chunk only
OnStderrDataLast(s, data) == [s EXCEPT !.stderr = data]

\* codex.stdout.on("data", ...) and codex.stderr.on("data", ...)
OnStdoutData(s, data) == [s EXCEPT !.stdout = @ \o data]
OnStderrData(s, data) == [s EXCEPT !.stderr = @ \o data]

\* a close handler that leaves the timers alone
OnCloseKeepsTimers(s, code) ==
  IF ~code.null /\ code.n = 0
  THEN Resolve([s EXCEPT !.log = IF s.stderr # ""
                                 THEN Append(@, "Codex stderr: " \o s.stderr)
                                 ELSE @],
               s.stdout)
  ELSE Reject(s, "Codex exited with code " \o CodeStr(code) \o ":\n" \o s.stderr)

\* codex.on("close", ...)
OnClose(s, code) ==
  LET s1 == ClearKillTimer(ClearTimer(s))
  IN  IF ~code.null /\ code.n = 0
      THEN Resolve([s1 EXCEPT !.log = IF s1.stderr # ""
                                      THEN Append(@, "Codex stderr: " \o s1.stderr)
                                      ELSE @],
                   s1.stdout)
      ELSE Reject(s1, "Codex exited with code " \o CodeStr(code) \o ":\n" \o s1.stderr)

\* codex.on("error", ...)
OnError(s, msg) ==
  Reject(ClearKillTimer(ClearTimer(s)), "Failed to spawn codex: " \o msg)

\* a termination callback that sends SIGTERM and never escalates
OnTimeoutNoEscalation(s, t) ==
  Reject(Kill(s, "SIGTERM", t),
         "Codex process timed out after " \o NumStr(s.TIMEOUT_MS) \o "ms")

\* a termination callback that hands out what stdout has given so far
OnTimeoutPartial(s, t) ==
  LET s1 == Kill(s, "SIGTERM", t)
      s2 == [s1 EXCEPT !.killTimeoutId = SetTimeout(t, SIGKILL_GRACE_MS)]
  IN  IF s.stdout # "" THEN Resolve(s2, s.stdout)
      ELSE Reject(s2, "Codex process timed out after " \o NumStr(s.TIMEOUT_MS) \o "ms")

\* the callback of the termination timer
OnTimeout(s, t) ==
  LET s1 == Kill(s, "SIGTERM", t)
      s2 == [s1 EXCEPT !.killTimeoutId = SetTimeout(t, SIGKILL_GRACE_MS)]
  IN  Reject(s2, "Codex process timed out after " \o NumStr(s.TIMEOUT_MS) \o "ms")

\* a kill-escalation callback that schedules itself again
OnKillTimeoutRepeat(s, t) ==
  [Kill(s, "SIGKILL", t) EXCEPT !.killTimeoutId = SetTimeout(t, SIGKILL_GRACE_MS)]

\* the callback of the kill-escalation timer
OnKillTimeout(s, t) == Kill(s, "SIGKILL", t)

\* the listeners callCodex registers after the stdin branch
LateListeners == {"stdout.data", "stderr.data", "close", "error"}

\* stdin.write(chunk) throws synchronously when chunk is not a string
WriteTypeError == "The \"chunk\" argument must be of type string"

\* a stdin branch that writes the prompt with no 'error' listener on stdin
StdinBranchUnguarded(s, prompt) ==
  IF s.hasStdin
  THEN IF prompt.t # "string"
       THEN Reject(ClearKillTimer(ClearTimer(s)),
                   "Failed to write prompt: " \o WriteTypeError)
       ELSE [s EXCEPT !.stdinData = prompt.v,
                      !.stdinEnded = TRUE,
                      !.listeners = @ \cup LateListeners]
  ELSE Reject(ClearTimer(s), "Codex stdin is not available")

\* a stdin branch that leaves the termination timer running when
\* codex.stdin is missing
StdinBranchKeepsTimer(s, prompt) ==
  IF s.hasStdin
  THEN LET s1 == [s EXCEPT !.listeners = @ \cup {"stdin.error"}]
       IN  IF prompt.t # "string"
           THEN Reject(ClearKillTimer(ClearTimer(s1)),
                       "Failed to write prompt: " \o WriteTypeError)
           ELSE [s1 EXCEPT !.stdinData = prompt.v,
                           !.stdinEnded = TRUE,
                           !.listeners = @ \cup LateListeners]
  ELSE Reject(s, "Codex stdin is not available")

\* the stdin branch of the executor, after spawn and setTimeout
StdinBranch(s, prompt) ==
  IF s.hasStdin
  THEN LET s1 == [s EXCEPT !.listeners = @ \cup {"stdin.error"}]
       IN  IF prompt.t # "string"
           THEN Reject(ClearKillTimer(ClearTimer(s1)),
                       "Failed to write prompt: " \o WriteTypeError)
           ELSE [s1 EXCEPT !.stdinData = prompt.v,
                           !.stdinEnded = TRUE,
                           !.listeners = @ \cup LateListeners]
  ELSE Reject(ClearTimer(s), "Codex stdin is not available")

\* an executor that schedules no termination timer
CallCodexNoTimeout(s, prompt, model, reasoning_effort, key, env, outcome, t) ==
  LET T == TimeoutMs(env)
      s1 == [s EXCEPT
               !.promise = [state |-> "pending", value |-> ""],
               !.TIMEOUT_MS = T,
               !.spawns = Append(@, [program |-> "codex",
                                     argv |-> CodexArgs(prompt, model, reasoning_effort),
                                     OPENAI_API_KEY |-> key]),
               !.child = IF outcome = "ok" THEN "running" ELSE "failed",
               !.exitCode = IF outcome = "ok" THEN NullCode
                            ELSE Code(SpawnErrno(outcome)),
               !.tick = (outcome # "ok"),
               !.hasStdin = (outcome # "EMFILE")]
  IN  StdinBranch(s1, prompt)

\* the executor of the promise callCodex returns, run at time t; outcome is
\* what spawn() does
CallCodex(s, prompt, model, reasoning_effort, key, env, outcome, t) ==
  LET T == TimeoutMs(env)
      s1 == [s EXCEPT
               !.promise = [state |-> "pending", value |-> ""],
               !.TIMEOUT_MS = T,
               !.spawns = Append(@, [program |-> "codex",
                                     argv |-> CodexArgs(prompt, model, reasoning_effort),
                                     OPENAI_API_KEY |-> key]),
               !.child = IF outcome = "ok" THEN "running" ELSE "failed",
               !.exitCode = IF outcome = "ok" THEN NullCode
                            ELSE Code(SpawnErrno(outcome)),
               !.tick = (outcome # "ok"),
               !.hasStdin = (outcome # "EMFILE"),
               !.timeoutId = SetTimeout(t, T)]
  IN  StdinBranch(s1, prompt)

(***************************************************************************)
(* handleCodexReview.                                                      *)
(***************************************************************************)
NO_KEY_TEXT == "Error: OPENAI_API_KEY not set. Please configure the API key in your MCP server settings."

\* a handler that calls callCodex without looking at the credential
HandleStartNoKeyCheck(s, args, key, env, outcome, t) ==
  CallCodex([s EXCEPT !.phase = "awaiting", !.args = args],
            args.prompt,
            OrDefault(args.model, "gpt-5-codex"),
            OrDefault(args.reasoning_effort, "high"),
            key, env, outcome, t)

\* the handler up to `await this.callCodex(...)`, for the request args
HandleStart(s, args, key, env, outcome, t) ==
  IF key = ""
  THEN [s EXCEPT !.phase = "responded", !.args = args,
                 !.response = [text |-> NO_KEY_TEXT, isError |-> FALSE]]
  ELSE CallCodex([s EXCEPT !.phase = "awaiting", !.args = args],
                 args.prompt,
                 OrDefault(args.model, "gpt-5-codex"),
                 OrDefault(args.reasoning_effort, "high"),
                 key, env, outcome, t)

\* the handler after the await: the promise p has settled; fsOk tells whether
\* mkdirSync and writeFileSync succeed
FS_ERROR == "EACCES: permission denied"
HandleResponse(p, output_file, fsOk) ==
  IF p.state = "fulfilled"
  THEN IF output_file.t # "undefined" /\ output_file.v # "" /\ ~fsOk
       THEN [text |-> "Error calling Codex: " \o FS_ERROR, isError |-> TRUE]
       ELSE [text |-> p.value, isError |-> FALSE]
  ELSE [text |-> "Error calling Codex: " \o p.value, isError |-> TRUE]

\* the file handleCodexReview writes, if any
HandleFiles(p, output_file, fsOk) ==
  IF p.state = "fulfilled" /\ output_file.t # "undefined" /\ output_file.v # "" /\ fsOk
  THEN {[path |-> output_file.v, content |-> p.value]}
  ELSE {}

(***************************************************************************)
(* Actions.                                                                *)
(***************************************************************************)
Settled(s) == s.promise.state \in {"fulfilled", "rejected"}

\* a continuation the runtime runs before it takes the next event: the
\* 'error' of a failed spawn (process.nextTick) or the handler's await
Urgent(s) == s.tick \/ (s.phase = "awaiting" /\ Settled(s))
Quiescent == ~hostCrashed /\ \A j \in Inv : ~Urgent(inv[j])

Init ==
  /\ apiKey \in ApiKeys
  /\ envTimeout \in EnvTimeouts
  /\ now = 0
  /\ hostCrashed = FALSE
  /\ files = {}
  /\ inv = [i \in Inv |-> IdleInv]

\* a codex_review request arrives, with arguments from reqs
HandleCodexReview(i, reqs) ==
  /\ Quiescent
  /\ inv[i].phase = "idle"
  /\ \E args \in reqs, outcome \in SpawnOutcomes :
       inv' = [inv EXCEPT ![i] =
                 HandleStart(@, args, apiKey, envTimeout, outcome, now)]
  /\ UNCHANGED <<apiKey, envTimeout, now, hostCrashed, files>>

\* a handler that calls callCodex a second time when the first call failed
RespondRetry(i) ==
  /\ ~hostCrashed
  /\ inv[i].phase = "awaiting"
  /\ Settled(inv[i])
  /\ IF inv[i].promise.state = "rejected" /\ Len(inv[i].spawns) < 2
     THEN /\ \E outcome \in SpawnOutcomes :
               inv' = [inv EXCEPT ![i] =
                         CallCodex(@, @.args.prompt,
                                   OrDefault(@.args.model, "gpt-5-codex"),
                                   OrDefault(@.args.reasoning_effort, "high"),
                                   apiKey, envTimeout, outcome, now)]
          /\ UNCHANGED files
     ELSE \E fsOk \in BOOLEAN :
            /\ inv' = [inv EXCEPT ![i].phase = "responded",
                                  ![i].response =
                                    HandleResponse(inv[i].promise, inv[i].args.output_file, fsOk)]
            /\ files' = files \cup HandleFiles(inv[i].promise, inv[i].args.output_file, fsOk)
  /\ UNCHANGED <<apiKey, envTimeout, now, hostCrashed>>

\* the await in handleCodexReview resumes and the response is returned
Respond(i) ==
  /\ ~hostCrashed
  /\ inv[i].phase = "awaiting"
  /\ Settled(inv[i])
  /\ \E fsOk \in BOOLEAN :
       /\ inv' = [inv EXCEPT ![i].phase = "responded",
                             ![i].response =
                               HandleResponse(inv[i].promise, inv[i].args.output_file, fsOk)]
       /\ files' = files \cup HandleFiles(inv[i].promise, inv[i].args.output_file, fsOk)
  /\ UNCHANGED <<apiKey, envTimeout, now, hostCrashed>>

\* the child emits 'error' with message msg: the handler runs if there is
\* one, otherwise the event is an unhandled 'error' and the host dies
EmitError(i, s, msg) ==
  IF "error" \in s.listeners
  THEN /\ inv' = [inv EXCEPT ![i] = OnError(s, msg)]
       /\ UNCHANGED hostCrashed
  ELSE /\ inv' = [inv EXCEPT ![i] = s]
       /\ hostCrashed' = TRUE

\* the 'error' event of a failed spawn, on the next tick
SpawnErrorTick(i) ==
  /\ ~hostCrashed
  /\ inv[i].tick
  /\ EmitError(i, [inv[i] EXCEPT !.tick = FALSE],
               "spawn codex " \o (IF inv[i].hasStdin THEN "ENOENT" ELSE "EMFILE"))
  /\ UNCHANGED <<apiKey, envTimeout, now, files>>

\* the child's stdin stream emits 'error': the handler runs if there is
\* one, otherwise the event is an unhandled 'error' and the host dies
StdinError(i) ==
  /\ Quiescent
  /\ inv[i].hasStdin
  /\ inv[i].child \in {"running", "exited", "failed"}
  /\ ~inv[i].stdinErrored
  /\ \E msg \in StdinErrors :
       IF "stdin.error" \in inv[i].listeners
       THEN /\ inv' = [inv EXCEPT ![i] = OnStdinError([@ EXCEPT !.stdinErrored = TRUE], msg)]
            /\ UNCHANGED hostCrashed
       ELSE /\ inv' = [inv EXCEPT ![i].stdinErrored = TRUE]
            /\ hostCrashed' = TRUE
  /\ UNCHANGED <<apiKey, envTimeout, now, files>>

\* a chunk of the child's stdout arrives
StdoutData(i) ==
  /\ Quiescent
  /\ inv[i].child \in {"running", "exited"}
  /\ "stdout.data" \in inv[i].listeners
  /\ Len(inv[i].childOut) < MaxChunks
  /\ Len(inv[i].childOut) < Len(ChildStdout)
  /\ LET c == ChildStdout[Len(inv[i].childOut) + 1]
     IN  inv' = [inv EXCEPT ![i] = OnStdoutData([@ EXCEPT !.childOut = Append(@, c)], c)]
  /\ UNCHANGED <<apiKey, envTimeout, now, hostCrashed, files>>

\* a chunk of the child's stderr arrives
StderrData(i) ==
  /\ Quiescent
  /\ inv[i].child \in {"running", "exited"}
  /\ "stderr.data" \in inv[i].listeners
  /\ Len(inv[i].childErr) < MaxChunks
  /\ Len(inv[i].childErr) < Len(ChildStderr)
  /\ LET c == ChildStderr[Len(inv[i].childErr) + 1]
     IN  inv' = [inv EXCEPT ![i] = OnStderrData([@ EXCEPT !.childErr = Append(@, c)], c)]
  /\ UNCHANGED <<apiKey, envTimeout, now, hostCrashed, files>>

\* the child process ends; no callback of callCodex listens to 'exit'
ChildExit(i) ==
  /\ ~hostCrashed
  /\ inv[i].child = "running"
  /\ \E code \in ExitCodes :
       inv' = [inv EXCEPT ![i].child = "exited", ![i].exitCode = code]
  /\ UNCHANGED <<apiKey, envTimeout, now, hostCrashed, files>>

\* the 'close' event: the child has ended and its stdio streams are closed
CloseEvent(i) ==
  /\ Quiescent
  /\ inv[i].child \in {"exited", "failed"}
  /\ inv' = [inv EXCEPT ![i] =
               IF "close" \in @.listeners
               THEN OnClose([@ EXCEPT !.child = "closed"], @.exitCode)
               ELSE [@ EXCEPT !.child = "closed"]]
  /\ UNCHANGED <<apiKey, envTimeout, now, hostCrashed, files>>

\* the termination timer fires
TimeoutFire(i) ==
  /\ Quiescent
  /\ inv[i].timeoutId.st = "pending"
  /\ now >= inv[i].timeoutId.at
  /\ inv' = [inv EXCEPT ![i] = OnTimeout([@ EXCEPT !.timeoutId.st = "fired"], now)]
  /\ UNCHANGED <<apiKey, envTimeout, now, hostCrashed, files>>

\* the kill-escalation timer fires
KillTimeoutFire(i) ==
  /\ Quiescent
  /\ inv[i].killTimeoutId.st = "pending"
  /\ now >= inv[i].killTimeoutId.at
  /\ inv' = [inv EXCEPT ![i] = OnKillTimeout([@ EXCEPT !.killTimeoutId.st = "fired"], now)]
  /\ UNCHANGED <<apiKey, envTimeout, now, hostCrashed, files>>

\* the deadlines of the timers that are pending
Deadlines ==
  {inv[j].timeoutId.at : j \in {k \in Inv : inv[k].timeoutId.st = "pending"}}
  \cup {inv[j].killTimeoutId.at : j \in {k \in Inv : inv[k].killTimeoutId.st = "pending"}}

\* time passes, never beyond the deadline of a pending timer
Advance ==
  /\ Quiescent
  /\ \E t \in Instants \cup Deadlines :
       /\ t > now
       /\ \A d \in Deadlines : t <= d
       /\ now' = t
  /\ UNCHANGED <<apiKey, envTimeout, hostCrashed, files, inv>>

Step(i, reqs) ==
  \/ HandleCodexReview(i, reqs)
  \/ Respond(i)
  \/ SpawnErrorTick(i)
  \/ StdinError(i)
  \/ StdoutData(i)
  \/ StderrData(i)
  \/ ChildExit(i)
  \/ CloseEvent(i)
  \/ TimeoutFire(i)
  \/ KillTimeoutFire(i)

\* one request
Next == Step(1, Requests) \/ Advance

Spec == Init /\ [][Next]_vars

\* two requests with a plain prompt under CODEX_TIMEOUT_MS = "3000ms", the
\* second one arriving when the first one is over and was answered with a
\* stdin write failure
SeqRequests == {Args(Str("review this"), Undefined, Undefined, Undefined)}

InitSeq == Init /\ apiKey # "" /\ envTimeout = "3000ms"

AfterStdinFailure(s) ==
  /\ s.phase = "responded"
  /\ s.child = "closed"
  /\ s.promise.state = "rejected"
  /\ StartsWith(s.promise.value, "Failed to write to codex stdin: ")

NextSeq ==
  \/ Step(1, SeqRequests)
  \/ (AfterStdinFailure(inv[1]) /\ Step(2, SeqRequests))
  \/ Advance

SpecSeq == InitSeq /\ [][NextSeq]_vars

\* two requests with a plain prompt under CODEX_TIMEOUT_MS = "3000ms" that are
\* in flight at the same time: the first one arrives at instant 0, the second
\* one while the first one is pending, and from then on the callbacks of the
\* two invocations interleave
InFlight(s) == s.phase = "awaiting" /\ s.promise.state = "pending"

NextConc ==
  \/ Step(1, SeqRequests)
  \/ (InFlight(inv[1]) /\ HandleCodexReview(2, SeqRequests))
  \/ (inv[2].phase # "idle" /\ Step(2, SeqRequests))
  \/ (inv[1].phase # "idle" /\ Advance)

SpecConc == InitSeq /\ [][NextConc]_vars

\* one request, with the scheduling Node guarantees: time passes, a timer
\* whose deadline has come has its callback run, and the next-tick queue is
\* run; nothing is assumed of the child
SpecLive ==
  /\ Init
  /\ [][Next]_vars
  /\ WF_vars(Advance)
  /\ WF_vars(TimeoutFire(1))
  /\ WF_vars(SpawnErrorTick(1))

TypeOK ==
  /\ apiKey \in ApiKeys
  /\ envTimeout \in EnvTimeouts
  /\ now \in Nat
  /\ hostCrashed \in BOOLEAN
  /\ \A i \in Inv :
       /\ inv[i].phase \in {"idle", "awaiting", "responded"}
       /\ inv[i].child \in {"none", "running", "failed", "exited", "closed"}
       /\ inv[i].promise.state \in {"none", "pending", "fulfilled", "rejected"}
       /\ Len(inv[i].spawns) <= 1

(***************************************************************************)
(* Properties.                                                             *)
(***************************************************************************)
Rejected(s) == s.promise.state = "rejected"
Fulfilled(s) == s.promise.state = "fulfilled"
Spawned(s) == Len(s.spawns) > 0

\* the kind of a Failure, read off the message callCodex rejects with
IsTimeout(s) == Rejected(s) /\ StartsWith(s.promise.value, "Codex process timed out after ")
IsStdinWriteFailed(s) == Rejected(s) /\ StartsWith(s.promise.value, "Failed to write to codex stdin: ")
IsWriteThrew(s) == Rejected(s) /\ StartsWith(s.promise.value, "Failed to write prompt: ")
IsStreamUnavailable(s) == Rejected(s) /\ s.promise.value = "Codex stdin is not available"
IsNonZeroExit(s) == Rejected(s) /\ StartsWith(s.promise.value, "Codex exited with code ")
IsSpawnFailed(s) == Rejected(s) /\ StartsWith(s.promise.value, "Failed to spawn codex: ")

\* C1: an invocation has at most one result: once the promise of callCodex
\* is settled no later event changes its state or value, and once the
\* handler has responded the response stays as it is.
C1_ResolvesOnce ==
  [][\A i \in Inv :
       /\ Settled(inv[i]) => inv'[i].promise = inv[i].promise
       /\ inv[i].phase = "responded" =>
            inv'[i].phase = "responded" /\ inv'[i].response = inv[i].response]_vars

\* the termination timer, a stdin error and the close event were all
\* processed for one invocation, each of which calls reject or resolve
C1_Witness ==
  \E i \in Inv :
    /\ Settled(inv[i])
    /\ inv[i].timeoutId.st = "fired"
    /\ inv[i].stdinErrored
    /\ inv[i].child = "closed"

\* the strings callCodex puts into the argument vector whatever the prompt
ArgvParts(s) ==
  { "exec", "--full-auto", "-m", "-c",
    OrDefault(s.args.model, "gpt-5-codex"),
    "model_reasoning_effort=" \o OrDefault(s.args.reasoning_effort, "high") }

\* C2 as stated: no element of the spawned argument vector equals the
\* payload text.
C2_ArgvNeverContainsPayload ==
  \A i \in Inv : \A k \in 1..Len(inv[i].spawns) :
    inv[i].args.prompt.t = "string" =>
      \A j \in DOMAIN inv[i].spawns[k].argv :
        inv[i].spawns[k].argv[j] # inv[i].args.prompt.v

\* C2 as amended: the argument vector is built from the fixed flags, the
\* model and the effort only, so an element equals the payload only when the
\* payload is itself one of those strings; the payload is what is written to
\* the child's stdin, which is then ended.
C2_PayloadOnlyViaStdin ==
  \A i \in Inv : \A k \in 1..Len(inv[i].spawns) :
    inv[i].args.prompt.t = "string" =>
      /\ \A j \in DOMAIN inv[i].spawns[k].argv :
           inv[i].spawns[k].argv[j] = inv[i].args.prompt.v =>
             inv[i].args.prompt.v \in ArgvParts(inv[i])
      /\ inv[i].hasStdin =>
           inv[i].stdinData = inv[i].args.prompt.v /\ inv[i].stdinEnded

\* a child was spawned for a prompt that is no flag, and the prompt was
\* written to its stdin
C2_Witness ==
  \E i \in Inv :
    /\ Spawned(inv[i])
    /\ inv[i].args.prompt = Str("review this")
    /\ inv[i].stdinData = "review this"
    /\ inv[i].child = "running"

\* C3: no event of the child reaches the host as an unhandled fault: the
\* host never crashes.
C3_NoHostCrash == hostCrashed = FALSE

\* C4: when the termination timer fires for an unresolved invocation, that
\* same step sends SIGTERM, schedules the kill-escalation timer 2000 ms
\* later and rejects with the timeout message naming T, and the child is
\* as it was: the resolution does not wait for the child to end.
C4_TimeoutStep ==
  [][\A i \in Inv :
       ( /\ inv[i].timeoutId.st = "pending"
         /\ inv'[i].timeoutId.st = "fired"
         /\ inv[i].promise.state = "pending" ) =>
       /\ inv'[i].signals = Append(inv[i].signals, [sig |-> "SIGTERM", at |-> now])
       /\ inv'[i].killTimeoutId = [st |-> "pending", at |-> now + 2000]
       /\ inv'[i].promise =
            [state |-> "rejected",
             value |-> "Codex process timed out after "
                         \o NumStr(inv[i].TIMEOUT_MS) \o "ms"]
       /\ now = inv[i].timeoutId.at
       /\ inv'[i].child = inv[i].child]_vars

\* the timer fired for a running child under CODEX_TIMEOUT_MS = "3000ms":
\* the invocation is rejected while the child still runs and the
\* escalation timer is pending
C4_Witness ==
  \E i \in Inv :
    /\ inv[i].promise = [state |-> "rejected",
                         value |-> "Codex process timed out after 3000ms"]
    /\ inv[i].child = "running"
    /\ inv[i].signals = <<[sig |-> "SIGTERM", at |-> now]>>
    /\ inv[i].killTimeoutId.st = "pending"

\* the child was launched: spawn() did not fail (a failed spawn reports a
\* negative errno as its exit code)
Launched(s) == Spawned(s) /\ s.child # "failed" /\ s.exitCode.n >= 0

NoTimerPending(s) == s.timeoutId.st # "pending" /\ s.killTimeoutId.st # "pending"

\* C5: for a child that keeps running after SIGTERM, SIGKILL is sent 2000 ms
\* after the SIGTERM: once the clock is past that instant the kill call has
\* been made, whatever events came in between.
C5_KillAfterGrace ==
  \A i \in Inv : \A k \in DOMAIN inv[i].signals :
    ( /\ inv[i].signals[k].sig = "SIGTERM"
      /\ inv[i].child = "running"
      /\ now > inv[i].signals[k].at + SIGKILL_GRACE_MS ) =>
    \E m \in DOMAIN inv[i].signals :
      inv[i].signals[m] = [sig |-> "SIGKILL",
                           at |-> inv[i].signals[k].at + SIGKILL_GRACE_MS]

\* C6 as stated: a child that closed with exit code 0 before the
\* termination timer fired has no timer pending and the Success value that
\* is the concatenation of its stdout chunks.
C6_ExitZeroIsSuccess ==
  \A i \in Inv :
    ( /\ Launched(inv[i])
      /\ inv[i].args.prompt.t = "string"
      /\ inv[i].child = "closed"
      /\ inv[i].exitCode = Code(0)
      /\ inv[i].timeoutId.st # "fired" ) =>
    /\ NoTimerPending(inv[i])
    /\ inv[i].promise = [state |-> "fulfilled", value |-> Concat(inv[i].childOut)]

\* C6 as amended: the same, when the prompt was written and no stdin error
\* was handled before the close event; in every case no timer is pending
\* after the close, and a Success value is the in-order concatenation of the
\* child's stdout chunks and holds none of its stderr text.
C6_ExitZeroFirstIsSuccess ==
  \A i \in Inv :
    /\ ( /\ Launched(inv[i])
         /\ inv[i].child = "closed"
         /\ inv[i].exitCode = Code(0)
         /\ inv[i].timeoutId.st # "fired"
         /\ inv[i].args.prompt.t = "string"
         /\ ~inv[i].stdinErrored ) =>
       inv[i].promise = [state |-> "fulfilled", value |-> Concat(inv[i].childOut)]
    /\ (Launched(inv[i]) /\ inv[i].child = "closed") => NoTimerPending(inv[i])
    /\ Fulfilled(inv[i]) =>
         /\ inv[i].promise.value = Concat(inv[i].childOut)
         /\ \A k \in DOMAIN inv[i].childErr :
              ~Contains(inv[i].promise.value, inv[i].childErr[k])

\* the child wrote "o", "k" to stdout and text to stderr and closed with
\* code 0: the result is Success "ok" and the timer is cancelled
C6_Witness ==
  \E i \in Inv :
    /\ inv[i].promise = [state |-> "fulfilled", value |-> "ok"]
    /\ inv[i].childOut = <<"o", "k">>
    /\ inv[i].childErr # <<>>
    /\ inv[i].timeoutId.st = "cleared"
    /\ inv[i].child = "closed"

\* C7 as stated: a child that wrote to stderr and closed with a non-zero
\* exit code before the termination timer fired yields the NonZeroExit
\* failure whose message holds the code and all of the stderr text.
C7_NonZeroExitHasDiagnostics ==
  \A i \in Inv :
    ( /\ Launched(inv[i])
      /\ inv[i].args.prompt.t = "string"
      /\ inv[i].child = "closed"
      /\ ~inv[i].exitCode.null /\ inv[i].exitCode.n # 0
      /\ inv[i].childErr # <<>>
      /\ inv[i].timeoutId.st # "fired" ) =>
    /\ IsNonZeroExit(inv[i])
    /\ Contains(inv[i].promise.value, CodeStr(inv[i].exitCode))
    /\ Contains(inv[i].promise.value, Concat(inv[i].childErr))

\* C7 as amended: the same, when the prompt was written and no stdin error
\* was handled before the close event.
C7_NonZeroExitFirstHasDiagnostics ==
  \A i \in Inv :
    ( /\ Launched(inv[i])
      /\ inv[i].child = "closed"
      /\ ~inv[i].exitCode.null /\ inv[i].exitCode.n # 0
      /\ inv[i].childErr # <<>>
      /\ inv[i].timeoutId.st # "fired"
      /\ inv[i].args.prompt.t = "string"
      /\ ~inv[i].stdinErrored ) =>
    /\ IsNonZeroExit(inv[i])
    /\ Contains(inv[i].promise.value, CodeStr(inv[i].exitCode))
    /\ Contains(inv[i].promise.value, Concat(inv[i].childErr))

\* the child wrote "bad " and "input" to stderr and closed with code 2
C7_Witness ==
  \E i \in Inv :
    /\ inv[i].promise = [state |-> "rejected",
                         value |-> "Codex exited with code 2:\nbad input"]
    /\ inv[i].childErr = <<"bad ", "input">>
    /\ inv[i].child = "closed"
    /\ inv[i].timeoutId.st = "cleared"

\* C8 as stated: once the stdin stream of a launched child has emitted
\* 'error', the host is alive and the result is the StdinWriteFailed failure
\* with the underlying message.
C8_StdinErrorIsStdinWriteFailed ==
  \A i \in Inv :
    (Launched(inv[i]) /\ inv[i].stdinErrored) =>
    /\ ~hostCrashed
    /\ inv[i].promise = [state |-> "rejected",
                         value |-> "Failed to write to codex stdin: write EPIPE"]

\* C8 as amended: the step that handles a stdin error never crashes the
\* host and, when the invocation is still unresolved, rejects it with the
\* StdinWriteFailed failure carrying the underlying message; a launched
\* child that was given the prompt is still unresolved at that step unless
\* its termination timer has fired; a request that follows such a failure
\* is served as
\* usual: its child closing with code 0, with no stdin error and no timeout
\* of its own, yields the Success made of that child's stdout.
C8_StdinErrorCaught ==
  [][/\ \A i \in Inv :
          (~inv[i].stdinErrored /\ inv'[i].stdinErrored) =>
          /\ hostCrashed' = FALSE
          /\ inv[i].promise.state = "pending" =>
               inv'[i].promise =
                 [state |-> "rejected",
                  value |-> "Failed to write to codex stdin: write EPIPE"]
          /\ ( /\ Launched(inv[i])
               /\ inv[i].args.prompt.t = "string"
               /\ inv[i].timeoutId.st # "fired" ) => inv[i].promise.state = "pending"
     /\ ( /\ AfterStdinFailure(inv'[1])
          /\ inv'[2].child = "closed"
          /\ inv'[2].exitCode = Code(0)
          /\ inv'[2].timeoutId.st # "fired"
          /\ ~inv'[2].stdinErrored ) =>
        /\ inv'[2].promise = [state |-> "fulfilled", value |-> Concat(inv'[2].childOut)]
        /\ hostCrashed' = FALSE]_vars

\* the first request failed on its stdin, the host lives and the request
\* after it got the Success "ok" of its own child
C8_Witness ==
  /\ inv[1].promise = [state |-> "rejected",
                       value |-> "Failed to write to codex stdin: write EPIPE"]
  /\ inv[1].response.isError
  /\ ~hostCrashed
  /\ inv[2].phase = "responded"
  /\ inv[2].response = [text |-> "ok", isError |-> FALSE]

\* C9: after a failed launch has emitted 'error', no timer is pending and
\* the result is the SpawnFailed failure with the launch error message.
C9_SpawnFailureIsSpawnFailed ==
  \A i \in Inv :
    ( /\ Spawned(inv[i])
      /\ ~Launched(inv[i])
      /\ inv[i].args.prompt.t = "string"
      /\ ~inv[i].tick ) =>
    /\ NoTimerPending(inv[i])
    /\ IsSpawnFailed(inv[i])
    /\ Contains(inv[i].promise.value, "spawn codex E")

\* C10: when codex.stdin is missing the invocation is rejected with the
\* stdin-unavailable failure as it starts, nothing is written or ended, no
\* listener is registered, the termination timer is cancelled, the
\* escalation timer is never set and no signal is sent.
C10_StdinUnavailable ==
  \A i \in Inv :
    (Spawned(inv[i]) /\ ~inv[i].hasStdin) =>
    /\ inv[i].promise = [state |-> "rejected", value |-> "Codex stdin is not available"]
    /\ inv[i].stdinData = "" /\ ~inv[i].stdinEnded
    /\ inv[i].listeners = {}
    /\ inv[i].timeoutId.st = "cleared"
    /\ inv[i].killTimeoutId = NullTimer
    /\ inv[i].signals = <<>>

\* a spawn without stdin was answered with the stdin-unavailable failure
C10_Witness ==
  \E i \in Inv :
    /\ Spawned(inv[i])
    /\ ~inv[i].hasStdin
    /\ inv[i].phase = "responded"
    /\ inv[i].response = [text |-> "Error calling Codex: Codex stdin is not available",
                          isError |-> TRUE]

\* C11: two invocations in flight at the same time are independent: a step
\* of one invocation changes nothing of the other one (its buffers, timers,
\* signals, listeners, promise and response), and it leaves the host able to
\* run the callbacks of the other one while that one is pending, so that the
\* other one gets the result it would have had alone.
C11_Independent ==
  [][\A i \in Inv : \A j \in Inv \ {i} :
       inv'[i] # inv[i] =>
         /\ inv'[j] = inv[j]
         /\ inv[j].promise.state = "pending" => ~hostCrashed']_vars

\* C12: when the API credential is absent, a codex_review call is answered
\* at once with the message that OPENAI_API_KEY is not set, and no child
\* process is spawned for it: callCodex is not entered, so there is no
\* promise, no timer, no signal and no file either.
C12_NoKeyNoSpawn ==
  \A i \in Inv :
    (apiKey = "" /\ inv[i].phase # "idle") =>
      /\ inv[i].phase = "responded"
      /\ StartsWith(inv[i].response.text, "Error: ")
      /\ Contains(inv[i].response.text, "OPENAI_API_KEY not set")
      /\ inv[i].spawns = <<>>
      /\ inv[i].child = "none"
      /\ inv[i].promise.state = "none"
      /\ inv[i].timeoutId = NullTimer /\ inv[i].killTimeoutId = NullTimer
      /\ inv[i].signals = <<>>
      /\ files = {}

\* a call that asked for a result file was answered without a credential
C12_Witness ==
  \E i \in Inv :
    /\ apiKey = ""
    /\ inv[i].phase = "responded"
    /\ inv[i].args.output_file.t = "string"
    /\ now > 0

\* C13: every spawn is of the program "codex" with the argument vector
\* exec, --full-auto, -m, <model>, -c, model_reasoning_effort=<effort> and
\* nothing else, where <model> is the caller's model or "gpt-5-codex" and
\* <effort> is the caller's reasoning_effort or "high"; -m and the model are
\* always there.
C13_SpawnArgv ==
  \A i \in Inv : \A k \in 1..Len(inv[i].spawns) :
    LET a == inv[i].args
        m == IF a.model.t = "undefined" THEN "gpt-5-codex" ELSE a.model.v
        e == IF a.reasoning_effort.t = "undefined" THEN "high"
             ELSE a.reasoning_effort.v
    IN  /\ inv[i].spawns[k].program = "codex"
        /\ inv[i].spawns[k].argv =
             << "exec", "--full-auto", "-m", m, "-c", "model_reasoning_effort=" \o e >>

\* a child was spawned for a call that chose its model and effort, and it
\* has closed
C13_Witness ==
  \E i \in Inv :
    /\ Spawned(inv[i])
    /\ inv[i].args.model = Str("gpt-5")
    /\ inv[i].args.reasoning_effort = Str("low")
    /\ inv[i].spawns[1].argv[4] = "gpt-5"
    /\ inv[i].spawns[1].argv[6] = "model_reasoning_effort=low"
    /\ inv[i].child = "closed"

\* C14: once a call is answered, its result file exists iff the invocation
\* resolved with Success and an output_file was given, and then the file
\* holds exactly the Success text; after a Failure nothing is written; after
\* a Success the text returned to the caller is exactly the Success text.
C14_FileIffSuccess ==
  \A i \in Inv :
    inv[i].phase = "responded" =>
      LET given == inv[i].args.output_file.t # "undefined"
          written == {f \in files : given /\ f.path = inv[i].args.output_file.v}
      IN  /\ (written # {}) <=> (Fulfilled(inv[i]) /\ given)
          /\ \A f \in written : f.content = inv[i].promise.value
          /\ ~Fulfilled(inv[i]) => files = {}
          /\ Fulfilled(inv[i]) => inv[i].response.text = inv[i].promise.value

\* C15: every response that reports a failure (the credential is missing,
\* or the invocation resolved with a Failure) has the failure's message in
\* its text and is marked isError; a response that returns the Success text
\* is not marked isError.
C15_FailureIsError ==
  \A i \in Inv :
    inv[i].phase = "responded" =>
      /\ apiKey = "" =>
           /\ Contains(inv[i].response.text, "OPENAI_API_KEY not set")
           /\ inv[i].response.isError
      /\ Rejected(inv[i]) =>
           /\ Contains(inv[i].response.text, inv[i].promise.value)
           /\ inv[i].response.isError
      /\ (Fulfilled(inv[i]) /\ inv[i].response.text = inv[i].promise.value) =>
           ~inv[i].response.isError

\* C16: the handler never retries: whatever happens, one codex_review call
\* has spawned at most one child process, and a call that was answered
\* after callCodex settled has spawned exactly one.
C16_AtMostOneSpawn ==
  \A i \in Inv :
    /\ Len(inv[i].spawns) <= 1
    /\ (inv[i].phase = "responded" /\ Settled(inv[i])) => Len(inv[i].spawns) = 1

\* a call was answered with a timeout, a failure one might retry
C16_Witness ==
  \E i \in Inv :
    /\ inv[i].phase = "responded"
    /\ IsTimeout(inv[i])
    /\ inv[i].response.isError
    /\ Len(inv[i].spawns) = 1

\* C17: every invocation resolves: whatever the child does, a pending
\* promise of callCodex is eventually settled, given only that time passes
\* and due timers and the next-tick queue are run; and the termination
\* timer is never out of the way (cancelled or fired) while the promise is
\* still pending.
C17_EventuallyResolves ==
  /\ \A i \in Inv :
       [](inv[i].timeoutId.st \in {"cleared", "fired"} => Settled(inv[i]))
  /\ \A i \in Inv :
       (inv[i].promise.state = "pending") ~> Settled(inv[i])

\* the child never wrote, never exited and outlived SIGTERM, and the
\* invocation was resolved by the termination timer
C17_Witness ==
  \E i \in Inv :
    /\ IsTimeout(inv[i])
    /\ inv[i].child = "running"
    /\ inv[i].childOut = <<>> /\ inv[i].childErr = <<>>
    /\ inv[i].killTimeoutId.st = "fired"

\* C18: once an invocation has resolved, an event of its child that comes
\* late (stdout or stderr data, close with any exit code, the process
\* 'error', a stdin 'error') changes nothing that can be observed: the
\* result, which timers are pending, the signals sent to the child and the
\* operational log are after the event what they were before it.
C18_LateEventsNoEffect ==
  [][\A i \in Inv :
       ( /\ Settled(inv[i])
         /\ \/ StdoutData(i) \/ StderrData(i) \/ CloseEvent(i)
            \/ SpawnErrorTick(i) \/ StdinError(i) ) =>
       /\ inv'[i].promise = inv[i].promise
       /\ (inv'[i].timeoutId.st = "pending") = (inv[i].timeoutId.st = "pending")
       /\ (inv'[i].killTimeoutId.st = "pending") = (inv[i].killTimeoutId.st = "pending")
       /\ inv'[i].signals = inv[i].signals
       /\ inv'[i].log = inv[i].log]_vars

\* C19: the child is released on every exit path: whenever the invocation
\* has resolved and the child it launched (and gave the prompt to) is still
\* running, a cleanup is still to come or has been done: the
\* kill-escalation timer is pending or SIGKILL has been sent.
C19_ChildReleased ==
  \A i \in Inv :
    ( /\ Settled(inv[i])
      /\ inv[i].args.prompt.t = "string"
      /\ inv[i].child = "running" ) =>
    \/ inv[i].killTimeoutId.st = "pending"
    \/ \E k \in DOMAIN inv[i].signals : inv[i].signals[k].sig = "SIGKILL"

\* C20: on every resolution other than Timeout (close with any code, spawn
\* error, stdin error, write failure, stdin unavailable) both timers are
\* out of the way from the resolution on: neither the termination timer
\* nor the kill-escalation timer is pending, neither has fired nor will,
\* and no signal is sent to the child.
C20_TimersCancelled ==
  \A i \in Inv :
    (Settled(inv[i]) /\ ~IsTimeout(inv[i])) =>
      /\ inv[i].timeoutId.st = "cleared"
      /\ inv[i].killTimeoutId.st \in {"null", "cleared"}
      /\ inv[i].signals = <<>>

\* the child closed with code 0 before the deadline, and the clock is now
\* past the deadline of the cancelled termination timer
C20_Witness ==
  \E i \in Inv :
    /\ Fulfilled(inv[i])
    /\ inv[i].child = "closed"
    /\ inv[i].timeoutId.st = "cleared"
    /\ now > inv[i].timeoutId.at

\* C21: per invocation each of the two timers is scheduled at most once, so
\* that at most one of each is ever pending: a timer id is assigned a
\* pending timer only while it holds none (and it never goes back to
\* holding none), the termination timer only by the step that starts the
\* invocation, and the kill-escalation timer only by the step in which the
\* termination timer fires, 2000 ms after that instant.
C21_TimersScheduledOnce ==
  [][\A i \in Inv :
       /\ (inv'[i].timeoutId # inv[i].timeoutId /\ inv'[i].timeoutId.st = "pending") =>
            /\ inv[i].timeoutId = NullTimer
            /\ inv[i].phase = "idle"
       /\ (inv'[i].killTimeoutId # inv[i].killTimeoutId
             /\ inv'[i].killTimeoutId.st = "pending") =>
            /\ inv[i].killTimeoutId = NullTimer
            /\ inv[i].timeoutId.st = "pending" /\ inv'[i].timeoutId.st = "fired"
            /\ inv'[i].killTimeoutId.at = now + SIGKILL_GRACE_MS
       /\ inv[i].timeoutId # NullTimer => inv'[i].timeoutId.st # "null"
       /\ inv[i].killTimeoutId # NullTimer => inv'[i].killTimeoutId.st # "null"
       /\ inv[i].timeoutId.st \in {"fired", "cleared"} =>
            inv'[i].timeoutId = inv[i].timeoutId
       /\ inv[i].killTimeoutId.st \in {"fired", "cleared"} =>
            inv'[i].killTimeoutId = inv[i].killTimeoutId]_vars

\* both timers have been scheduled and both have fired
C21_Witness ==
  \E i \in Inv :
    /\ inv[i].timeoutId.st = "fired"
    /\ inv[i].killTimeoutId.st = "fired"
    /\ inv[i].child = "closed"

\* C22: partial output is never surfaced as a success. If the result is
\* Success, the child was launched and its close event with exit code 0 was
\* processed, and before it no termination timer fired (no signal was
\* sent), no stdin error and no process error was processed; the Success
\* text is then all of the stdout received. If the result is a Failure, its
\* message is made of the failure kind, the timeout, the exit code, the
\* underlying error and stderr only: the stdout text is no part of it.
C22_NoPartialSuccess ==
  \A i \in Inv :
    /\ Fulfilled(inv[i]) =>
         /\ Launched(inv[i])
         /\ inv[i].child = "closed"
         /\ inv[i].exitCode = Code(0)
         /\ inv[i].timeoutId.st = "cleared"
         /\ inv[i].killTimeoutId = NullTimer
         /\ inv[i].signals = <<>>
         /\ ~inv[i].stdinErrored
         /\ inv[i].promise.value = Concat(inv[i].childOut)
    /\ Rejected(inv[i]) =>
         inv[i].promise.value \in
           { "Codex process timed out after " \o NumStr(inv[i].TIMEOUT_MS) \o "ms",
             "Failed to write prompt: " \o WriteTypeError,
             "Codex stdin is not available",
             "Codex exited with code " \o CodeStr(inv[i].exitCode) \o ":\n"
               \o Concat(inv[i].childErr),
             "Failed to spawn codex: spawn codex ENOENT" }
           \cup {"Failed to write to codex stdin: " \o m : m \in StdinErrors}

\* the child wrote to stdout, the invocation was resolved by the termination
\* timer, the child then closed with exit code 0, and the call was answered
C22_Witness ==
  \E i \in Inv :
    /\ IsTimeout(inv[i])
    /\ inv[i].stdout # ""
    /\ inv[i].child = "closed"
    /\ inv[i].exitCode = Code(0)
    /\ inv[i].phase = "responded"

\* C23: signals follow the escalation order. Within one invocation the
\* signals sent are none, or SIGTERM, or SIGTERM then SIGKILL with SIGKILL
\* sent at least 2000 ms after SIGTERM (each at most once); and once the
\* close event of the child or its process 'error' event has been
\* processed, no further signal is sent.
C23_SignalOrder ==
  [][\A i \in Inv :
       LET sg == inv'[i].signals
           errorProcessed == /\ Spawned(inv[i]) /\ ~Launched(inv[i])
                             /\ ~inv[i].tick /\ "error" \in inv[i].listeners
       IN  /\ Len(sg) <= 2
           /\ Len(sg) >= 1 => sg[1].sig = "SIGTERM"
           /\ Len(sg) = 2 =>
                /\ sg[2].sig = "SIGKILL"
                /\ sg[2].at >= sg[1].at + SIGKILL_GRACE_MS
           /\ (inv[i].child = "closed" \/ errorProcessed) =>
                inv'[i].signals = inv[i].signals]_vars

\* SIGTERM and then SIGKILL were sent, and the child has closed since
C23_Witness ==
  \E i \in Inv :
    /\ Len(inv[i].signals) = 2
    /\ inv[i].signals[2].sig = "SIGKILL"
    /\ inv[i].child = "closed"
    /\ now > inv[i].signals[2].at

\* C24: the termination callback never runs for an invocation that has
\* resolved: the step in which the termination timer fires, and any step
\* that sends SIGTERM, starts with the promise pending and ends with the
\* result Timeout. And the result is of the kind of the first resolving
\* event processed: the executor leaves the promise rejected with the write
\* failure (prompt not a string) or with stdin unavailable (no stdin);
\* otherwise a close, a stdin error, a process error or the timeout that is
\* processed while the promise is pending gives the result its kind, and
\* a settled promise never changes.
C24_FirstResolvingEventWins ==
  [][\A i \in Inv :
       LET s == inv[i]
           n == inv'[i]
           pending == s.promise.state = "pending"
       IN  /\ (s.timeoutId.st = "pending" /\ n.timeoutId.st = "fired") =>
                pending /\ IsTimeout(n)
           /\ (Len(n.signals) > Len(s.signals)
                 /\ n.signals[Len(n.signals)].sig = "SIGTERM") =>
                pending /\ IsTimeout(n)
           /\ (s.phase = "idle" /\ n.phase = "awaiting") =>
                IF ~n.hasStdin THEN IsStreamUnavailable(n)
                ELSE IF n.args.prompt.t # "string" THEN IsWriteThrew(n)
                ELSE n.promise.state = "pending"
           /\ (pending /\ CloseEvent(i)) =>
                IF s.exitCode = Code(0)
                THEN Fulfilled(n) /\ n.promise.value = s.stdout
                ELSE IsNonZeroExit(n)
           /\ (pending /\ StdinError(i)) => IsStdinWriteFailed(n)
           /\ (pending /\ SpawnErrorTick(i)) => IsSpawnFailed(n)
           /\ Settled(s) => n.promise = s.promise]_vars

\* the timeout resolved the invocation; a stdin error and a close with exit
\* code 0 were processed after it and the call was answered with the timeout
C24_Witness ==
  \E i \in Inv :
    /\ IsTimeout(inv[i])
    /\ inv[i].stdinErrored
    /\ inv[i].child = "closed"
    /\ inv[i].exitCode = Code(0)
    /\ inv[i].phase = "responded"
    /\ StartsWith(inv[i].response.text, "Error calling Codex: Codex process timed out")
====
